---- MODULE Spec2Model ----
(***************************************************************************)
(* dwidge/hooks-react: the synchronized debounce buffer, useSaveState and  *)
(* useAsyncSaveState (src/src/useSaveState.ts).                            *)
(*                                                                         *)
(* One mounted instance of the hook is modelled together with the React    *)
(* machinery it relies on:                                                 *)
(*   - useState cells hold a committed value (internalState, changed) and  *)
(*     the update queued by a setter call (pendInternal, pendChanged),     *)
(*     which the next render commits;                                      *)
(*   - useRef cells (internalStateRef, changedRef, debounceTimerRef) are   *)
(*     written at once;                                                    *)
(*   - a render commits the queued updates, reads the external value and   *)
(*     runs the effects whose dependencies changed, in declaration order;  *)
(*   - closures read the values of the render that created them.           *)
(* Values are objects {count: n} with an identity, so that === (same       *)
(* object) and deepCompare (same content) differ.                          *)
(***************************************************************************)
EXTENDS Integers, Sequences, FiniteSets

VARIABLES
    variant,            \* "sync": useSaveState, "async": useAsyncSaveState
    hasSetter,          \* setExternalState is supplied
    autoSaveOnUnmount,  \* second parameter of the hook
    debounceOn,         \* debounceMs !== undefined
    internalState,      \* useState cell: committed value
    changed,            \* useState cell: committed value
    pendInternal,       \* queued setInternalState value: {} or {v}
    pendChanged,        \* queued setChanged value: {} or {b}
    internalStateRef,   \* internalStateRef.current
    changedRef,         \* changedRef.current
    debounceTimerRef,   \* debounceTimerRef.current: 0 (undefined) or a handle
    timers,             \* handles of the timers that are armed
    extStore,           \* the value held by the external store
    externalState,      \* the external value the last render received
    inflight,           \* async variant: values whose write promise is unsettled
    mounted,            \* the component is mounted
    extCalls,           \* history: number of calls of setExternalState
    lastOp,             \* history: the operation that ran last
    burstWrites,        \* history: debounced writes since the burst began
    rapid,              \* history: updater calls in a row since the last render
    list,               \* useArray: the list state (queued updaters applied)
    renderedList,       \* useArray: the list the last render received
    arrayOp,            \* history: what the last useArray operation did
    filterGiven,        \* ErrorBoundary: props.filter is supplied
    children,           \* ErrorBoundary: identity of props.children
    error,              \* ErrorBoundary: state.error ("null" or a thrown value)
    pendingReset,       \* ErrorBoundary: queued setState({error: null}), by whom
    shown,              \* ErrorBoundary: what the last render returned
    logged,             \* ErrorBoundary: console.error calls of componentDidCatch
    boundaryOp,         \* history: the last ErrorBoundary step
    wrapper,            \* state wrappers: which hook wraps the input state
    wInput,             \* state wrappers: the input value of the last render
    wSetterGiven,       \* state wrappers: the input setter is defined
    wCall,              \* state wrappers: the call of the returned setter under way
    wMounted,           \* state wrappers: the component is mounted
    countThreshold,     \* useCountDebounce: option
    currentCount,       \* useCountDebounce: useState value of the last render
    pendCount,          \* useCountDebounce: value after the queued updates
    timeoutRef,         \* useCountDebounce: the reset timeout is armed
    burstCalls,         \* history: trigger() calls of the current burst
    reached,            \* history: onThresholdReached() calls of the current burst
    isRunning,          \* useAsyncSemaphore: useState value of the last render
    pendRunning,        \* useAsyncSemaphore: isRunning after the queued updates
    lastResult,         \* useAsyncSemaphore: lastResult is defined in the last render
    lastError,          \* useAsyncSemaphore: lastError is defined in the last render
    pendResult,         \* useAsyncSemaphore: lastResult after the queued updates
    pendError,          \* useAsyncSemaphore: lastError after the queued updates
    currentPromiseRef,  \* useAsyncSemaphore: 0 (null) or the execution whose promise it holds
    abortControllerRef, \* useAsyncSemaphore: 0 (null) or the execution whose controller it holds
    unsettled,          \* useAsyncSemaphore: executions whose asyncFn has not settled
    aborted,            \* useAsyncSemaphore: executions whose signal is aborted
    resetsWaiting,      \* useAsyncSemaphore: reset() calls waiting for their timeout
    failed,             \* history: the assertions that have failed
    asyncFnGiven,       \* useAsyncInterval: asyncFn is defined
    enable,             \* useAsyncInterval: prop of the last render
    intervalSeconds,    \* useAsyncInterval: prop of the last render
    lastRunTime,        \* useAsyncInterval: useState value of the last render
    pendLastRunTime,    \* useAsyncInterval: the queued update of lastRunTime
    timeoutIdRef,       \* useAsyncInterval: 0 (null) or the timer the ref holds
    intervalTimers,     \* useAsyncInterval: the timers armed and not yet expired
    scheduleCleanup,    \* useAsyncInterval: the last scheduleNextRun effect returned a cleanup
    envSteps,           \* history: calls and prop changes made by the component's user
    intervalOp          \* history: the last useAsyncInterval step

config == <<variant, hasSetter, autoSaveOnUnmount, debounceOn>>
cells == <<internalState, changed, pendInternal, pendChanged>>
refs == <<internalStateRef, changedRef>>
timing == <<debounceTimerRef, timers>>
ext == <<extStore, inflight, extCalls>>
hist == <<lastOp, burstWrites, rapid>>
saveVars == <<config, cells, refs, timing, ext, externalState, mounted, hist>>
arrayVars == <<list, renderedList, arrayOp>>
boundaryVars ==
    <<filterGiven, children, error, pendingReset, shown, logged, boundaryOp>>
wrapVars == <<wrapper, wInput, wSetterGiven, wCall, wMounted>>
countVars == <<countThreshold, currentCount, pendCount, timeoutRef, burstCalls, reached>>
semVars == <<isRunning, pendRunning, lastResult, lastError, pendResult, pendError,
             currentPromiseRef, abortControllerRef, unsettled, aborted,
             resetsWaiting, failed>>
intervalVars == <<asyncFnGiven, enable, intervalSeconds, lastRunTime, pendLastRunTime,
                  timeoutIdRef, intervalTimers, scheduleCleanup, envSteps, intervalOp>>
vars == <<saveVars, arrayVars, boundaryVars, wrapVars, countVars, semVars, intervalVars>>

\* The state of the hooks other than useSaveState / useAsyncSaveState.
others == <<arrayVars, boundaryVars, wrapVars, countVars, semVars, intervalVars>>

(* ---------------------------- bounds ---------------------------------- *)
MaxCount == 1       \* counts 0..MaxCount
MaxCalls == 2       \* setExternalState is called at most MaxCalls times
MaxTimers == 3      \* timer handles 1..MaxTimers
MaxBurst == 3       \* writes of one burst are counted up to MaxBurst
MaxLen == 3         \* useArray: lists of up to MaxLen items
MaxChildren == 3    \* ErrorBoundary: children elements 1..MaxChildren
MaxThreshold == 3
MaxTriggers == 4
MaxExec == 3
MaxResets == 2
MaxSeconds == 1
MaxIntervalTimers == 2
MaxEnv == 3
MaxLogged == 3      \* ErrorBoundary: componentDidCatch logs up to MaxLogged errors

(* ---------------------------- values ---------------------------------- *)
ObjIds == {"a", "b"}
Obj(i, c) == [kind |-> "object", id |-> i, count |-> c]
Undefined == [kind |-> "undefined", id |-> "a", count |-> 0]
Objects == {Obj(i, c) : i \in ObjIds, c \in 0..MaxCount}
Values == Objects \cup {Undefined}
TimerIds == 1..MaxTimers

\* a === b: the same object (or both undefined)
StrictEq(a, b) == a = b

\* A mutant of deepCompare: reference comparison.
deepCompareByRef(a, b) == a = b

\* deepCompare: strict equality, else both must be objects with equal fields.
deepCompare(a, b) ==
    IF StrictEq(a, b) THEN TRUE
    ELSE IF a.kind # "object" \/ b.kind # "object" THEN FALSE
    ELSE a.count = b.count

isEqualValue(a, b) == deepCompare(a, b)

\* SetStateAction<T>: a literal value or an updater function of the previous
\* state; the updater modelled is v => ({count: v.count + 1}).
Updater(f) == [fn |-> f, value |-> Undefined]
Literal(v) == [fn |-> "literal", value |-> v]
Inc(prev) == Obj(IF prev.id = "a" THEN "b" ELSE "a", prev.count + 1)
ActionDefined(action, prev) ==
    action.fn = "inc" => (prev.kind = "object" /\ prev.count < MaxCount)
getActionValueSync(action, prev) ==
    IF action.fn = "inc" THEN Inc(prev) ELSE action.value
SetStateActions == {Literal(v) : v \in Objects} \cup {Updater("inc")}

(* ------------------------- the hook's code ----------------------------- *)

\* The state a queued update leaves after the next render.
NextInternal == IF pendInternal = {} THEN internalState
                ELSE CHOOSE v \in pendInternal : TRUE
NextChanged == IF pendChanged = {} THEN changed
               ELSE CHOOSE b \in pendChanged : TRUE

\* setState on an unmounted component is dropped.
SetInternalState(v) == pendInternal' = IF mounted THEN {v} ELSE pendInternal
SetChanged(b) == pendChanged' = IF mounted THEN {b} ELSE pendChanged

\* setValue is returned only while internalState !== undefined.
SetValueDefined == internalState # Undefined

\* The test that decides whether setValue(action) writes.
SetValueWrites(updated) ==
    IF variant = "sync" THEN ~isEqualValue(updated, internalStateRef)
    ELSE ~StrictEq(updated, internalState)

\* A handle for a new timer: one that names no armed timer and is not held.
FreshTimer == CHOOSE h \in TimerIds : h \notin timers /\ h # debounceTimerRef

\* A mutant of ArmTimer: the timer armed before is not cleared.
ArmTimerNoClear ==
    IF debounceOn
    THEN /\ \E h \in TimerIds : h \notin timers /\ h # debounceTimerRef
         /\ timers' = timers \cup {FreshTimer}
         /\ debounceTimerRef' = FreshTimer
    ELSE UNCHANGED timing

\* A mutant of ArmTimer: a timer is armed whether or not debounceMs is set.
ArmTimerAlways ==
    /\ \E h \in TimerIds : h \notin timers /\ h # debounceTimerRef
    /\ timers' = (timers \ {debounceTimerRef}) \cup {FreshTimer}
    /\ debounceTimerRef' = FreshTimer

\* if (debounceTimerRef.current) clearTimeout(...);
\* debounceTimerRef.current = setTimeout(() => save(), debounceMs)
ArmTimer ==
    IF debounceOn
    THEN /\ \E h \in TimerIds : h \notin timers /\ h # debounceTimerRef
         /\ timers' = (timers \ {debounceTimerRef}) \cup {FreshTimer}
         /\ debounceTimerRef' = FreshTimer
    ELSE UNCHANGED timing

\* setExternalState(v): the synchronous store takes the value at once, the
\* asynchronous one returns a promise that settles later.
CallSetExternalState(v) ==
    /\ extCalls' = extCalls + 1
    /\ IF variant = "sync"
       THEN extStore' = v /\ inflight' = inflight
       ELSE extStore' = extStore /\ inflight' = Append(inflight, v)

\* A mutant of SaveCondition: save() never writes.
SaveConditionNever == FALSE

\* The condition of save().
SaveCondition ==
    changedRef /\ hasSetter /\ internalStateRef # Undefined

\* A mutant of Save: without a setter save() still clears changed.
SaveClearsWithoutSetter ==
    IF changedRef /\ internalStateRef # Undefined
    THEN /\ IF hasSetter
            THEN extCalls < MaxCalls /\ CallSetExternalState(internalStateRef)
            ELSE UNCHANGED ext
         /\ SetChanged(FALSE)
    ELSE UNCHANGED <<ext, pendChanged>>

\* save()
Save ==
    IF SaveCondition
    THEN /\ extCalls < MaxCalls
         /\ CallSetExternalState(internalStateRef)
         /\ SetChanged(FALSE)
    ELSE UNCHANGED <<ext, pendChanged>>

\* A mutant of RevertCondition: revert() that does not test changedRef.
RevertAlways == TRUE

\* The condition of revert().
RevertCondition == changedRef

\* Mutants of AdoptCondition: the effect ignores changedRef, or tests it
\* the wrong way round.
AdoptIgnoringChanged(chRef, inRef, extValue) == ~isEqualValue(inRef, extValue)
AdoptOnlyWhenChanged(chRef, inRef, extValue) ==
    chRef /\ ~isEqualValue(inRef, extValue)

\* The condition under which the external-value effect adopts the value.
AdoptCondition(chRef, inRef, extValue) ==
    ~chRef /\ ~isEqualValue(inRef, extValue)

\* A mutant of TeardownSaves: debounce mode does not force the save.
TeardownSavesAutoOnly == autoSaveOnUnmount /\ changedRef

\* What save() hands to its caller: it is declared () => void and neither
\* returns nor awaits the promise setExternalState returns, so a rejection of
\* that promise reaches no caller.
SaveReturns == "void"
RejectionReaches == IF SaveReturns = "promise" THEN "caller" ELSE "nobody"

\* The condition under which the unmount cleanup calls save().
TeardownSaves == (autoSaveOnUnmount \/ debounceOn) /\ changedRef

(* ------------------------------ Init ----------------------------------- *)
\* The state after the first render and its effects: the internal value is
\* the external value, which is undefined while the store is loading.
Mounted ==
    /\ hasSetter \in BOOLEAN
    /\ autoSaveOnUnmount \in BOOLEAN
    /\ debounceOn \in BOOLEAN
    /\ extStore \in {Obj("a", 0), Undefined}
    /\ externalState = extStore
    /\ internalState = extStore
    /\ changed = FALSE
    /\ pendInternal = {}
    /\ pendChanged = {}
    /\ internalStateRef = internalState
    /\ changedRef = changed
    /\ debounceTimerRef = 0
    /\ timers = {}
    /\ inflight = <<>>
    /\ mounted = TRUE
    /\ extCalls = 0
    /\ lastOp = "mount"
    /\ burstWrites = 0
    /\ rapid = 0

\* useArray() before any call: useState<T[]>([]).
ArrayStart ==
    /\ list = <<>>
    /\ renderedList = <<>>
    /\ arrayOp = "none"

\* An ErrorBoundary just mounted, its children rendered without an error.
BoundaryMounted ==
    /\ children = 1
    /\ error = "null"
    /\ pendingReset = "none"
    /\ shown = "children"
    /\ logged = 0
    /\ boundaryOp = "mount"
BoundaryStart == filterGiven = FALSE /\ BoundaryMounted

\* Values of the state wrappers, tagged with their type: an original
\* {a, b}, the derived value a of it, a JSON text and the JSON value it
\* encodes, and a plain value.
Val(t, a, b) == [t |-> t, a |-> a, b |-> b]
WUndefined == Val("undefined", 0, 0)
NoCall ==
    [phase |-> "idle", valueOrUpdate |-> WUndefined, prev |-> WUndefined,
     newValue |-> WUndefined, sent |-> <<>>, originalPromise |-> "none",
     result |-> WUndefined]

\* A wrapper rendered once over a loading, read-only input.
WrapStart ==
    /\ wrapper = "useLogState"
    /\ wInput = WUndefined
    /\ wSetterGiven = FALSE
    /\ wCall = NoCall
    /\ wMounted = TRUE

\* useCountDebounce after its first render.
CountMounted ==
    /\ currentCount = 0
    /\ pendCount = 0
    /\ timeoutRef = FALSE
    /\ burstCalls = 0
    /\ reached = 0
CountStart == countThreshold = 1 /\ CountMounted

\* useAsyncSemaphore after its first render.
SemStart ==
    /\ isRunning = FALSE
    /\ pendRunning = FALSE
    /\ lastResult = FALSE
    /\ lastError = FALSE
    /\ pendResult = FALSE
    /\ pendError = FALSE
    /\ currentPromiseRef = 0
    /\ abortControllerRef = 0
    /\ unsettled = {}
    /\ aborted = {}
    /\ resetsWaiting = 0
    /\ failed = {}

\* useAsyncInterval after its first render and effects: scheduleNextRun has
\* armed a timer (of 0 ms, lastRunTime being null) if there is something to run.
IntervalMounted ==
    /\ lastRunTime = "null"
    /\ pendLastRunTime = "keep"
    /\ timeoutIdRef = IF asyncFnGiven /\ enable /\ intervalSeconds > 0 THEN 1 ELSE 0
    /\ intervalTimers = IF asyncFnGiven /\ enable /\ intervalSeconds > 0 THEN {1} ELSE {}
    /\ scheduleCleanup = (asyncFnGiven /\ enable /\ intervalSeconds > 0)
    /\ envSteps = 0
    /\ intervalOp = IF asyncFnGiven /\ enable /\ intervalSeconds > 0
                    THEN "renderArm" ELSE "render"
IntervalStart ==
    /\ asyncFnGiven = FALSE
    /\ enable = FALSE
    /\ intervalSeconds = 0
    /\ IntervalMounted

\* The other hooks, not yet used.
OthersStart ==
    ArrayStart /\ BoundaryStart /\ WrapStart /\ CountStart /\ SemStart /\ IntervalStart

Init == variant = "sync" /\ Mounted /\ OthersStart
InitAsync == variant = "async" /\ Mounted /\ OthersStart

\* One mounted useSaveState that is left alone, for the specifications of
\* the other hooks.
SaveStart ==
    /\ variant = "sync"
    /\ Mounted
    /\ ~hasSetter
    /\ ~autoSaveOnUnmount
    /\ ~debounceOn
    /\ extStore = Undefined

(* ----------------------------- actions --------------------------------- *)

\* History of a call of setValue: an updater call counts as the first of a
\* rapid pair when no update is queued, and as the second right after it.
RapidAfter(action) ==
    IF action.fn = "literal" THEN 0
    ELSE IF rapid = 1 THEN 2
    ELSE IF rapid = 0 /\ pendInternal = {} /\ pendChanged = {} THEN 1
    ELSE 0

\* History of a burst of debounced writes: it ends when the timer expires
\* (the count is kept for one state), and flush, revert and teardown end it.
BurstKept == IF lastOp = "timer" THEN 0 ELSE burstWrites
BurstAfterWrite ==
    IF ~debounceOn THEN 0
    ELSE IF BurstKept < MaxBurst THEN BurstKept + 1 ELSE MaxBurst

\* setValue(action), called on the setter the last render returned. The
\* closure reads the internalState of that render.
SetValue(action) ==
    /\ mounted
    /\ SetValueDefined
    /\ ActionDefined(action, internalState)
    /\ LET updated == getActionValueSync(action, internalState) IN
       IF SetValueWrites(updated)
       THEN /\ SetInternalState(updated)
            /\ internalStateRef' =
                 IF variant = "sync" THEN updated ELSE internalStateRef
            /\ SetChanged(TRUE)
            /\ ArmTimer
            /\ burstWrites' = BurstAfterWrite
       ELSE /\ UNCHANGED <<pendInternal, pendChanged, internalStateRef, timing>>
            /\ burstWrites' = BurstKept
    /\ lastOp' = IF action.fn = "literal" THEN "setValue" ELSE "setValueFn"
    /\ rapid' = RapidAfter(action)
    /\ UNCHANGED <<config, internalState, changed, changedRef, ext,
                   externalState, mounted>>
    /\ UNCHANGED others

\* flush(): the save function the last render returned.
Flush ==
    /\ mounted
    /\ Save
    /\ lastOp' = "flush"
    /\ burstWrites' = 0
    /\ rapid' = 0
    /\ UNCHANGED <<config, internalState, changed, pendInternal, refs, timing,
                   externalState, mounted>>
    /\ UNCHANGED others

\* revert(): the closure reads the externalState of the last render; the
\* asynchronous variant also clears changedRef.
Revert ==
    /\ mounted
    /\ IF RevertCondition
       THEN /\ SetInternalState(externalState)
            /\ SetChanged(FALSE)
            /\ changedRef' = IF variant = "async" THEN FALSE ELSE changedRef
       ELSE UNCHANGED <<pendInternal, pendChanged, changedRef>>
    /\ lastOp' = "revert"
    /\ burstWrites' = 0
    /\ rapid' = 0
    /\ UNCHANGED <<config, internalState, changed, internalStateRef, timing,
                   ext, externalState, mounted>>
    /\ UNCHANGED others

\* The debounce timer h expires and calls save(). A timer callback is a task
\* of its own: React has rendered the updates queued by the event that armed
\* it, and run their effects, before it runs.
TimerFire(h) ==
    /\ h \in timers
    /\ mounted => (pendInternal = {} /\ pendChanged = {})
    /\ timers' = timers \ {h}
    /\ Save
    /\ lastOp' = "timer"
    /\ burstWrites' = BurstKept
    /\ rapid' = 0
    /\ UNCHANGED <<config, internalState, changed, pendInternal, refs,
                   debounceTimerRef, externalState, mounted>>
    /\ UNCHANGED others

\* A render: commits the queued updates, receives the external value, then
\* runs the ref effect and the external-value effect if their dependencies
\* changed (Object.is), in this order.
Render ==
    /\ mounted
    /\ pendInternal # {} \/ pendChanged # {} \/ ~StrictEq(extStore, externalState)
    /\ LET newInternal == NextInternal
           newChanged == NextChanged
           newExternal == extStore
           refEffect == ~StrictEq(newInternal, internalState) \/ newChanged # changed
           extEffect == ~StrictEq(newExternal, externalState)
           inRef == IF refEffect THEN newInternal ELSE internalStateRef
           chRef == IF refEffect THEN newChanged ELSE changedRef
           adopt == extEffect /\ AdoptCondition(chRef, inRef, newExternal)
       IN /\ internalState' = newInternal
          /\ changed' = newChanged
          /\ externalState' = newExternal
          /\ changedRef' = chRef
          /\ internalStateRef' = IF adopt THEN newExternal ELSE inRef
          /\ pendInternal' = IF adopt THEN {newExternal} ELSE {}
          /\ pendChanged' = {}
          /\ lastOp' = IF extEffect THEN "renderExternal" ELSE "render"
    /\ rapid' = 0
    /\ burstWrites' = BurstKept
    /\ UNCHANGED <<config, timing, ext, mounted>>
    /\ UNCHANGED others

\* Another writer changes the external store.
ExternalChange(v) ==
    /\ mounted
    /\ ~StrictEq(v, extStore)
    /\ extStore' = v
    /\ lastOp' = "external"
    /\ rapid' = 0
    /\ burstWrites' = BurstKept
    /\ UNCHANGED <<config, cells, refs, timing, inflight, extCalls,
                   externalState, mounted>>
    /\ UNCHANGED others

\* The promise of the oldest unsettled external write resolves.
Resolve ==
    /\ inflight # <<>>
    /\ extStore' = Head(inflight)
    /\ inflight' = Tail(inflight)
    /\ lastOp' = "resolve"
    /\ burstWrites' = 0
    /\ rapid' = 0
    /\ UNCHANGED <<config, cells, refs, timing, extCalls,
                   externalState, mounted>>
    /\ UNCHANGED others

\* The promise of the oldest unsettled external write rejects.
Reject ==
    /\ inflight # <<>>
    /\ inflight' = Tail(inflight)
    /\ lastOp' = "reject"
    /\ burstWrites' = 0
    /\ rapid' = 0
    /\ UNCHANGED <<config, cells, refs, timing, extStore, extCalls,
                   externalState, mounted>>
    /\ UNCHANGED others

\* Unmount: the cleanup of the mount effect calls save() if asked to and
\* clears the timer held by debounceTimerRef.
Teardown ==
    /\ mounted
    /\ IF TeardownSaves THEN Save ELSE UNCHANGED <<ext, pendChanged>>
    /\ timers' = timers \ {debounceTimerRef}
    /\ mounted' = FALSE
    /\ lastOp' = "teardown"
    /\ burstWrites' = 0
    /\ rapid' = 0
    /\ UNCHANGED <<config, internalState, changed, pendInternal, refs,
                   debounceTimerRef, externalState>>
    /\ UNCHANGED others

Next ==
    \/ \E action \in SetStateActions : SetValue(action)
    \/ Flush
    \/ Revert
    \/ \E h \in TimerIds : TimerFire(h)
    \/ Render
    \/ \E v \in Objects : ExternalChange(v)
    \/ Teardown

\* The asynchronous store changes when a write made through it resolves.
NextAsync ==
    \/ \E action \in SetStateActions : SetValue(action)
    \/ Flush
    \/ Revert
    \/ \E h \in TimerIds : TimerFire(h)
    \/ Render
    \/ Resolve
    \/ Reject
    \/ Teardown

\* useSaveState over a synchronous store
Spec == Init /\ [][Next]_vars

\* useAsyncSaveState over an asynchronous store
SpecAsync == InitAsync /\ [][NextAsync]_vars

\* useSaveState with debounceMs set and an external setter, under fair
\* scheduling: React renders a queued update and the host runs an expired
\* timer's callback.
InitLive == Init /\ debounceOn /\ hasSetter
SpecLive ==
    /\ InitLive
    /\ [][Next]_vars
    /\ WF_vars(Render)
    /\ WF_vars(\E h \in TimerIds : TimerFire(h))

\* Either hook, each over its store
InitBoth == Init \/ InitAsync
NextBoth ==
    \/ variant = "sync" /\ Next
    \/ variant = "async" /\ NextAsync
SpecBoth == InitBoth /\ [][NextBoth]_vars

(* ------------------------------ useArray ------------------------------ *)
\* Items {id, val}; null is the item with id 0.
ItemIds == {1, 2}
ItemVals == {0, 1}
Item(i, x) == [id |-> i, val |-> x]
NullItem == Item(0, 0)
Items == {Item(i, x) : i \in ItemIds, x \in ItemVals}

\* SetStateAction<T | null>: null, an item, or an updater of the previous
\* item; the updater modelled is p => p && {...p, val: 1 - p.val}.
ItemUpdater == Item(0, 1)
ItemActions == Items \cup {NullItem, ItemUpdater}
Toggle(prev) == IF prev = NullItem THEN NullItem ELSE Item(prev.id, 1 - prev.val)
resolvedNewItem(newItem, item) ==
    IF newItem = ItemUpdater THEN Toggle(item) ELSE newItem

\* list.find((item) => item.id === itemId) || null
FindItem(l, itemId) ==
    IF \E i \in 1..Len(l) : l[i].id = itemId
    THEN l[CHOOSE i \in 1..Len(l) :
             l[i].id = itemId /\ \A j \in 1..(i - 1) : l[j].id # itemId]
    ELSE NullItem

\* currentList.findIndex((currentItem) => currentItem.id === itemId); 0 is -1
existingIndex(currentList, itemId) ==
    IF \E i \in 1..Len(currentList) : currentList[i].id = itemId
    THEN CHOOSE i \in 1..Len(currentList) :
            /\ currentList[i].id = itemId
            /\ \A j \in 1..(i - 1) : currentList[j].id # itemId
    ELSE 0

\* currentList.filter((currentItem) => currentItem.id !== itemId)
RECURSIVE FilterOut(_, _)
FilterOut(currentList, itemId) ==
    IF currentList = <<>> THEN <<>>
    ELSE IF Head(currentList).id = itemId
         THEN FilterOut(Tail(currentList), itemId)
         ELSE <<Head(currentList)>> \o FilterOut(Tail(currentList), itemId)

\* A mutant of setItemUpdate: an existing item is replaced by removing it and
\* appending the new one.
setItemMoveToEnd(currentList, itemId, resolved) ==
    IF resolved = NullItem THEN FilterOut(currentList, itemId)
    ELSE IF existingIndex(currentList, itemId) # 0
         THEN LET i == existingIndex(currentList, itemId) IN
              SubSeq(currentList, 1, i - 1)
                 \o SubSeq(currentList, i + 1, Len(currentList))
                 \o <<resolved>>
         ELSE Append(currentList, resolved)

\* The updater setItem passes to setList.
setItemUpdate(currentList, itemId, resolved) ==
    IF resolved = NullItem THEN FilterOut(currentList, itemId)
    ELSE IF existingIndex(currentList, itemId) # 0
         THEN [currentList EXCEPT ![existingIndex(currentList, itemId)] = resolved]
         ELSE Append(currentList, resolved)

\* useItem(itemId)[1](newItem): an updater is resolved against the item of the
\* render that created the setter.
SetItem(itemId, newItem) ==
    /\ LET resolved == resolvedNewItem(newItem, FindItem(renderedList, itemId)) IN
       /\ Len(setItemUpdate(list, itemId, resolved)) <= MaxLen
       /\ list' = setItemUpdate(list, itemId, resolved)
       /\ arrayOp' = IF resolved = NullItem THEN "remove"
                     ELSE IF existingIndex(list, itemId) # 0 THEN "replace"
                     ELSE "append"
    /\ UNCHANGED <<renderedList, saveVars, boundaryVars, wrapVars, countVars, semVars, intervalVars>>

\* The component re-renders with the new list.
ArrayRender ==
    /\ renderedList # list
    /\ renderedList' = list
    /\ arrayOp' = "render"
    /\ UNCHANGED <<list, saveVars, boundaryVars, wrapVars, countVars, semVars, intervalVars>>

InitArray ==
    /\ SaveStart /\ ArrayStart /\ BoundaryStart /\ WrapStart /\ CountStart
    /\ SemStart /\ IntervalStart
NextArray ==
    \/ \E itemId \in ItemIds, newItem \in ItemActions : SetItem(itemId, newItem)
    \/ ArrayRender
SpecArray == InitArray /\ [][NextArray]_vars

(* ---------------------------- ErrorBoundary ---------------------------- *)
\* What a child can throw: two Error instances, of which a supplied filter
\* accepts the first (e instanceof UnauthorizedError), and a value that is
\* not an Error.
Thrown == {"Unauthorized", "OtherError", "notAnError"}
ChildrenElements == 1..MaxChildren

\* error instanceof Error
InstanceOfError(e) == e \in {"Unauthorized", "OtherError"}

\* A mutant of Filter: a supplied filter is ignored.
FilterIgnored(e) == InstanceOfError(e)

\* props.filter, or its default (error) => error instanceof Error
Filter(e) ==
    IF filterGiven THEN e = "Unauthorized" ELSE InstanceOfError(e)

\* render(): error && filter(error) ? fallback : children
RendersFallback(e) == e # "null" /\ Filter(e)

\* One pass of rendering the boundary with state.error = e0 while the
\* children, if rendered, throw `thrown` ("none": they render). A thrown
\* value goes through getDerivedStateFromError and the boundary is rendered
\* again; when it returns the children again the error escapes the boundary.
RenderPass(e0, thrown) ==
    IF RendersFallback(e0) THEN [error |-> e0, shown |-> "fallback", caught |-> FALSE]
    ELSE IF thrown = "none" THEN [error |-> e0, shown |-> "children", caught |-> FALSE]
    ELSE IF RendersFallback(thrown)
         THEN [error |-> thrown, shown |-> "fallback", caught |-> TRUE]
         ELSE [error |-> thrown, shown |-> "escaped", caught |-> TRUE]

\* componentDidCatch logs the error a committed boundary has caught.
LoggedAfter(r) ==
    IF r.caught /\ r.shown = "fallback" THEN logged + 1 ELSE logged

\* componentDidUpdate(prevProps): this.state.error && children changed
DidUpdateResets(e, newChildren, prevChildren) ==
    e # "null" /\ newChildren # prevChildren

\* The parent re-renders the boundary with children c (a new element, or the
\* same one when only a child re-renders), and the update is committed.
BoundaryUpdate(c, thrown) ==
    /\ shown # "escaped"
    /\ pendingReset = "none"
    /\ LET r == RenderPass(error, thrown) IN
       /\ LoggedAfter(r) <= MaxLogged
       /\ logged' = LoggedAfter(r)
       /\ error' = r.error
       /\ shown' = r.shown
       /\ children' = c
       /\ pendingReset' =
            IF r.shown # "escaped" /\ DidUpdateResets(r.error, c, children)
            THEN "didUpdate" ELSE "none"
       /\ boundaryOp' = IF r.caught THEN "caught" ELSE "update"
    /\ UNCHANGED <<filterGiven, saveVars, arrayVars, wrapVars, countVars, semVars, intervalVars>>

\* reset(), as handed to the fallback
BoundaryReset ==
    /\ shown = "fallback"
    /\ pendingReset = "none"
    /\ pendingReset' = "reset"
    /\ boundaryOp' = "reset"
    /\ UNCHANGED <<filterGiven, children, error, shown, logged, saveVars,
                   arrayVars, wrapVars, countVars, semVars, intervalVars>>

\* React renders the queued setState({error: null}) and commits it; the
\* props are those of the commit before.
BoundaryRerender(thrown) ==
    /\ pendingReset # "none"
    /\ LET r == RenderPass("null", thrown) IN
       /\ LoggedAfter(r) <= MaxLogged
       /\ logged' = LoggedAfter(r)
       /\ error' = r.error
       /\ shown' = r.shown
       /\ boundaryOp' = IF r.caught THEN "caught" ELSE "rerender"
    /\ pendingReset' = "none"
    /\ UNCHANGED <<filterGiven, children, saveVars, arrayVars, wrapVars, countVars, semVars, intervalVars>>

InitBoundary ==
    /\ SaveStart
    /\ ArrayStart
    /\ WrapStart
    /\ CountStart
    /\ SemStart
    /\ IntervalStart
    /\ filterGiven \in BOOLEAN
    /\ BoundaryMounted
NextBoundary ==
    \/ \E c \in ChildrenElements, thrown \in Thrown \cup {"none"} :
          BoundaryUpdate(c, thrown)
    \/ BoundaryReset
    \/ \E thrown \in Thrown \cup {"none"} : BoundaryRerender(thrown)
SpecBoundary == InitBoundary /\ [][NextBoundary]_vars

(* --------- useDerivedState, useConvert, useJson, useLogState, ---------- *)
(* ------------------------ useDelayedCallback --------------------------- *)
Bits == {0, 1}
AsyncWrappers == {"useDerivedState", "useConvert", "useJson"}
Wrappers == AsyncWrappers \cup {"useLogState", "useDelayedCallback"}

\* The input values of a wrapper (undefined: loading).
InputsOf(w) ==
    IF w \in {"useDerivedState", "useConvert"}
    THEN {Val("original", a, b) : a \in Bits, b \in Bits}
    ELSE IF w = "useJson" THEN {Val("string", a, 0) : a \in Bits}
    ELSE {Val("value", a, 0) : a \in Bits}

\* toDerived / toR: the field a of the original; toJson_fromString: JSON.parse
toDerived(w, original) ==
    IF original = WUndefined THEN WUndefined
    ELSE IF w \in {"useDerivedState", "useConvert"} THEN Val("derived", original.a, 0)
    ELSE IF w = "useJson" THEN Val("json", original.a, 0)
    ELSE original

\* toOriginal / toT: the previous original with field a replaced;
\* toString_fromJson: JSON.stringify
toOriginal(w, derived, prevOriginal) ==
    IF w \in {"useDerivedState", "useConvert"}
    THEN Val("original", derived.a, prevOriginal.b)
    ELSE IF w = "useJson" THEN Val("string", derived.a, 0)
    ELSE derived

\* The values the returned setter is called with: a value of the wrapper's
\* output type or, for the wrappers that take one, an updater
\* (prev => ({...prev, a: 1 - prev.a})).
FlipUpdate == Val("updater", 0, 0)
WNull == Val("null", 0, 0)
OutputsOf(w) == {toDerived(w, i) : i \in InputsOf(w)}
ActionsOf(w) ==
    OutputsOf(w) \cup (IF w \in AsyncWrappers THEN {FlipUpdate} ELSE {})
resolveValueOrUpdate(valueOrUpdate, prevDerived) ==
    IF valueOrUpdate # FlipUpdate THEN valueOrUpdate
    ELSE IF prevDerived = WNull THEN Val("json", 1, 0)
    ELSE Val(prevDerived.t, 1 - prevDerived.a, prevDerived.b)

\* The value an updater is applied to: the derived value of the render that
\* made the setter (useJson: decodedValue ?? null).
prevDerivedOf(w, prevOriginal) ==
    IF w = "useJson" /\ prevOriginal = WUndefined THEN WNull
    ELSE toDerived(w, prevOriginal)

\* A mutant of ReturnedSetterDefined: a setter is returned for a read-only
\* input.
ReturnedSetterAlways(w, input, setterGiven) == input # WUndefined

\* Whether the wrapper returns a setter: useDerivedState and useConvert need
\* a defined input value and the input setter, the others the input setter.
ReturnedSetterDefined(w, input, setterGiven) ==
    IF w \in {"useDerivedState", "useConvert"}
    THEN input # WUndefined /\ setterGiven
    ELSE setterGiven

\* The parent renders the wrapper with a new input value and setter. The
\* cleanup of useDelayedCallback's effect runs when the setter changes: it
\* clears the timer and passes the delayed value to the setter it closed over.
WrapRender(input, setterGiven, setterChanged) ==
    /\ wMounted
    /\ setterGiven # wSetterGiven => setterChanged
    /\ wInput' = input
    /\ wSetterGiven' = setterGiven
    /\ wCall' =
         IF wrapper = "useDelayedCallback" /\ wCall.phase = "timer" /\ setterChanged
         THEN [wCall EXCEPT !.phase = "flushed", !.sent = <<wCall.newValue>>]
         ELSE wCall
    /\ UNCHANGED <<wrapper, wMounted, saveVars, arrayVars, boundaryVars, countVars, semVars, intervalVars>>

\* The returned setter is called. useLogState passes the value on at once;
\* useDelayedCallback keeps it in stateRef and (re-)arms the timer; the
\* asynchronous wrappers first await the value or the updater's result.
WrapCall(valueOrUpdate) ==
    /\ wMounted
    /\ ReturnedSetterDefined(wrapper, wInput, wSetterGiven)
    /\ wCall.phase \in
         {"idle", "returned", "fired", "flushed", "resolved", "rejected", "timer"}
    /\ wCall' =
         IF wrapper = "useLogState"
         THEN [phase |-> "returned", valueOrUpdate |-> valueOrUpdate,
               prev |-> wInput, newValue |-> valueOrUpdate,
               sent |-> <<valueOrUpdate>>, originalPromise |-> "none",
               result |-> WUndefined]
         ELSE IF wrapper = "useDelayedCallback"
         THEN [phase |-> "timer", valueOrUpdate |-> valueOrUpdate,
               prev |-> wInput, newValue |-> valueOrUpdate,
               sent |-> <<>>, originalPromise |-> "none", result |-> WUndefined]
         ELSE [phase |-> "resolving", valueOrUpdate |-> valueOrUpdate,
               prev |-> wInput, newValue |-> WUndefined,
               sent |-> <<>>, originalPromise |-> "none", result |-> WUndefined]
    /\ UNCHANGED <<wrapper, wInput, wSetterGiven, wMounted, saveVars, arrayVars, boundaryVars, countVars, semVars, intervalVars>>

\* useDelayedCallback: the timer expires and the value is passed on.
WrapTimerFire ==
    /\ wCall.phase = "timer"
    /\ wCall' = [wCall EXCEPT !.phase = "fired", !.sent = <<wCall.newValue>>]
    /\ UNCHANGED <<wrapper, wInput, wSetterGiven, wMounted, saveVars, arrayVars, boundaryVars, countVars, semVars, intervalVars>>

\* The component unmounts: the cleanup of useDelayedCallback's effect clears
\* the timer and passes the delayed value to the setter.
WrapUnmount ==
    /\ wMounted
    /\ wMounted' = FALSE
    /\ wCall' =
         IF wrapper = "useDelayedCallback" /\ wCall.phase = "timer"
         THEN [wCall EXCEPT !.phase = "flushed", !.sent = <<wCall.newValue>>]
         ELSE wCall
    /\ UNCHANGED <<wrapper, wInput, wSetterGiven, saveVars, arrayVars,
                   boundaryVars, countVars, semVars, intervalVars>>

\* A mutant of SendToOriginal: the previous original is not merged in.
SendWithoutPrev(call) ==
    LET newDerivedValue ==
          resolveValueOrUpdate(call.valueOrUpdate, prevDerivedOf(wrapper, call.prev))
    IN [call EXCEPT !.phase = "awaiting", !.originalPromise = "pending",
                    !.newValue = newDerivedValue,
                    !.sent = Append(call.sent,
                               toOriginal(wrapper, newDerivedValue, Val("original", 0, 0)))]

\* setDerived after its first await: the action is resolved against the
\* derived value of the render that made the setter, and setOriginal is
\* called with toOriginal(newDerivedValue, prevOriginal).
SendToOriginal(call) ==
    LET newDerivedValue ==
          resolveValueOrUpdate(call.valueOrUpdate, prevDerivedOf(wrapper, call.prev))
    IN [call EXCEPT !.phase = "awaiting", !.originalPromise = "pending",
                    !.newValue = newDerivedValue,
                    !.sent = Append(call.sent,
                               toOriginal(wrapper, newDerivedValue, call.prev))]

WrapSend ==
    /\ wCall.phase = "resolving"
    /\ wCall' = SendToOriginal(wCall)
    /\ UNCHANGED <<wrapper, wInput, wSetterGiven, wMounted, saveVars, arrayVars, boundaryVars, countVars, semVars, intervalVars>>

\* The promise the original setter returned settles.
WrapOriginalSettles(ok) ==
    /\ wCall.originalPromise = "pending"
    /\ wCall' = [wCall EXCEPT
                   !.originalPromise = IF ok THEN "resolved" ELSE "rejected"]
    /\ UNCHANGED <<wrapper, wInput, wSetterGiven, wMounted, saveVars, arrayVars, boundaryVars, countVars, semVars, intervalVars>>

\* A mutant of AfterAwait: a rejection of the original setter is swallowed.
AfterAwaitSwallow(call) ==
    [call EXCEPT !.phase = "resolved", !.result = call.newValue]

\* setDerived after `await setOriginal(...)`: it returns newDerivedValue, or
\* the rejection is thrown on.
AfterAwait(call) ==
    IF call.originalPromise = "resolved"
    THEN [call EXCEPT !.phase = "resolved", !.result = call.newValue]
    ELSE [call EXCEPT !.phase = "rejected"]

WrapReturn ==
    /\ wCall.phase = "awaiting"
    /\ wCall.originalPromise \in {"resolved", "rejected"}
    /\ wCall' = AfterAwait(wCall)
    /\ UNCHANGED <<wrapper, wInput, wSetterGiven, wMounted, saveVars, arrayVars, boundaryVars, countVars, semVars, intervalVars>>

InitWrap ==
    /\ SaveStart
    /\ ArrayStart
    /\ BoundaryStart
    /\ CountStart
    /\ SemStart
    /\ IntervalStart
    /\ wrapper \in Wrappers
    /\ wInput \in InputsOf(wrapper) \cup {WUndefined}
    /\ wSetterGiven \in BOOLEAN
    /\ wCall = NoCall
    /\ wMounted = TRUE
NextWrap ==
    \/ \E input \in InputsOf(wrapper) \cup {WUndefined},
          setterGiven \in BOOLEAN, setterChanged \in BOOLEAN :
          WrapRender(input, setterGiven, setterChanged)
    \/ \E valueOrUpdate \in ActionsOf(wrapper) : WrapCall(valueOrUpdate)
    \/ WrapTimerFire
    \/ WrapUnmount
    \/ WrapSend
    \/ \E ok \in BOOLEAN : WrapOriginalSettles(ok)
    \/ WrapReturn
SpecWrap == InitWrap /\ [][NextWrap]_vars

(* -------------------------- useCountDebounce --------------------------- *)
notCount == <<saveVars, arrayVars, boundaryVars, wrapVars, semVars, intervalVars>>

\* trigger's test, on the currentCount of the render that made it
ThresholdTest == currentCount + 1 = countThreshold

\* trigger(): queues prev => prev + 1, re-arms the reset timeout and calls
\* onThresholdReached() when the rendered count + 1 is the threshold.
Trigger ==
    /\ burstCalls < MaxTriggers
    /\ pendCount' = pendCount + 1
    /\ timeoutRef' = TRUE
    /\ reached' = IF ThresholdTest THEN reached + 1 ELSE reached
    /\ burstCalls' = burstCalls + 1
    /\ UNCHANGED <<countThreshold, currentCount, notCount>>

\* The component re-renders with the queued count.
CountRender ==
    /\ pendCount # currentCount
    /\ currentCount' = pendCount
    /\ UNCHANGED <<countThreshold, pendCount, timeoutRef, burstCalls, reached,
                   notCount>>

\* resetDelay passed without a call: resetCount() queues 0; the burst is over.
resetCount ==
    /\ timeoutRef
    /\ pendCount' = 0
    /\ timeoutRef' = FALSE
    /\ burstCalls' = 0
    /\ reached' = 0
    /\ UNCHANGED <<countThreshold, currentCount, notCount>>

InitCount ==
    /\ SaveStart
    /\ ArrayStart
    /\ BoundaryStart
    /\ WrapStart
    /\ SemStart
    /\ IntervalStart
    /\ countThreshold \in 1..MaxThreshold
    /\ CountMounted
NextCount == Trigger \/ CountRender \/ resetCount
SpecCount == InitCount /\ [][NextCount]_vars

(* -------------------------- useAsyncSemaphore -------------------------- *)
notSem == <<saveVars, arrayVars, boundaryVars, wrapVars, countVars, intervalVars>>
ExecIds == 1..MaxExec

\* The asyncFn call a new execution makes: names no unsettled call.
ExecFree == ExecIds \ unsettled # {}
FreshExec == CHOOSE i \in ExecIds : i \notin unsettled /\ \A j \in ExecIds \ unsettled : i <= j

\* A mutant of ExposedExecute: execute is exposed while running too.
ExposedExecuteAlways(running) == TRUE

\* execute: isRunning ? undefined : execute, and abort: isRunning ? abort :
\* undefined, in the returned object.
ExposedExecute(running) == ~running
ExposedAbort(running) == running

\* abort(): aborts the signal of the controller the ref holds, if any.
Abort == aborted' = IF abortControllerRef # 0
                    THEN aborted \cup {abortControllerRef} ELSE aborted

\* execute(asyncFn) up to its await. A failed assertion throws: E21 and E22
\* before anything is changed.
execute ==
    /\ IF currentPromiseRef # 0
       THEN /\ failed' = failed \cup {"E21"}
            /\ UNCHANGED <<pendRunning, currentPromiseRef, abortControllerRef,
                           unsettled>>
       ELSE IF abortControllerRef # 0
       THEN /\ failed' = failed \cup {"E22"}
            /\ UNCHANGED <<pendRunning, currentPromiseRef, abortControllerRef,
                           unsettled>>
       ELSE /\ pendRunning' = TRUE
            /\ abortControllerRef' = FreshExec
            /\ currentPromiseRef' = FreshExec
            /\ unsettled' = unsettled \cup {FreshExec}
            /\ failed' = failed
    /\ UNCHANGED <<isRunning, lastResult, lastError, pendResult, pendError,
                   aborted, resetsWaiting>>

\* A mutant of executeSettles: a resolved run leaves lastError as it is.
executeSettlesKeepingError(i, ok) ==
    /\ unsettled' = unsettled \ {i}
    /\ aborted' = aborted \ {i}
    /\ pendResult' = ok
    /\ pendError' = IF ok THEN pendError ELSE TRUE
    /\ pendRunning' = FALSE
    /\ currentPromiseRef' = 0
    /\ abortControllerRef' = 0
    /\ failed' = failed
    /\ UNCHANGED <<isRunning, lastResult, lastError, resetsWaiting>>

\* execute(asyncFn) from its await on: try or catch, then finally. E41 and
\* E42 throw before the refs are cleared.
executeSettles(i, ok) ==
    /\ unsettled' = unsettled \ {i}
    /\ aborted' = aborted \ {i}
    /\ pendResult' = ok
    /\ pendError' = ~ok
    /\ pendRunning' = FALSE
    /\ IF currentPromiseRef = 0
       THEN /\ failed' = failed \cup {"E41"}
            /\ UNCHANGED <<currentPromiseRef, abortControllerRef>>
       ELSE IF abortControllerRef = 0
       THEN /\ failed' = failed \cup {"E42"}
            /\ UNCHANGED <<currentPromiseRef, abortControllerRef>>
       ELSE /\ currentPromiseRef' = 0
            /\ abortControllerRef' = 0
            /\ failed' = failed
    /\ UNCHANGED <<isRunning, lastResult, lastError, resetsWaiting>>

\* reset() up to its await: abort(), then a timeout of 0 ms.
resetSemaphore ==
    /\ Abort
    /\ resetsWaiting' = resetsWaiting + 1
    /\ UNCHANGED <<isRunning, pendRunning, lastResult, lastError, pendResult,
                   pendError, currentPromiseRef, abortControllerRef, unsettled,
                   failed>>

\* reset() after its await: the state and both refs are cleared.
resetContinues ==
    /\ resetsWaiting' = resetsWaiting - 1
    /\ pendRunning' = FALSE
    /\ pendResult' = FALSE
    /\ pendError' = FALSE
    /\ currentPromiseRef' = 0
    /\ abortControllerRef' = 0
    /\ UNCHANGED <<isRunning, lastResult, lastError, unsettled, aborted, failed>>

\* execute(asyncFn), the function the last render exposed.
SemExecute ==
    /\ ExposedExecute(isRunning)
    /\ ExecFree
    /\ execute
    /\ UNCHANGED notSem

\* The promise of asyncFn call i settles, whether or not its signal was
\* aborted, and execute continues.
SemSettle(i, ok) ==
    /\ i \in unsettled
    /\ executeSettles(i, ok)
    /\ UNCHANGED notSem

\* abort(), exposed while isRunning.
SemAbort ==
    /\ ExposedAbort(isRunning)
    /\ Abort
    /\ UNCHANGED <<isRunning, pendRunning, lastResult, lastError, pendResult,
                   pendError, currentPromiseRef, abortControllerRef, unsettled,
                   resetsWaiting, failed, notSem>>

SemReset ==
    /\ resetsWaiting < MaxResets
    /\ resetSemaphore
    /\ UNCHANGED notSem

SemResetContinue ==
    /\ resetsWaiting > 0
    /\ resetContinues
    /\ UNCHANGED notSem

\* The component re-renders with the queued state.
SemRender ==
    /\ pendRunning # isRunning \/ pendResult # lastResult \/ pendError # lastError
    /\ isRunning' = pendRunning
    /\ lastResult' = pendResult
    /\ lastError' = pendError
    /\ UNCHANGED <<pendRunning, pendResult, pendError, currentPromiseRef,
                   abortControllerRef, unsettled, aborted, resetsWaiting,
                   failed, notSem>>

InitSem ==
    /\ SaveStart
    /\ ArrayStart
    /\ BoundaryStart
    /\ WrapStart
    /\ CountStart
    /\ SemStart
    /\ IntervalStart
NextSem ==
    \/ SemExecute
    \/ \E i \in ExecIds, ok \in BOOLEAN : SemSettle(i, ok)
    \/ SemAbort
    \/ SemReset
    \/ SemResetContinue
    \/ SemRender
SpecSem == InitSem /\ [][NextSem]_vars

(* --------------------------- useAsyncInterval -------------------------- *)
notInterval == <<saveVars, arrayVars, boundaryVars, wrapVars, countVars>>
IntervalTimerIds == 1..MaxIntervalTimers
Seconds == 0..MaxSeconds

\* executeAsyncFn: defined when the semaphore exposes execute and asyncFn is
\* given; it is what the returned object exposes as trigger.
executeAsyncFnDefined(running) == ExposedExecute(running) /\ asyncFnGiven

\* No state update is queued.
IntervalRendered ==
    /\ pendRunning = isRunning
    /\ pendResult = lastResult
    /\ pendError = lastError
    /\ pendLastRunTime = "keep"

\* lastRunTime after the queued update.
NextLastRunTime == IF pendLastRunTime = "keep" THEN lastRunTime ELSE pendLastRunTime

\* executeAsyncFn(arg): execute(s => asyncFn(s, arg).finally(...))
Run(op) ==
    /\ ExecFree
    /\ execute
    /\ intervalOp' = IF currentPromiseRef = 0 /\ abortControllerRef = 0
                     THEN op ELSE "rejected"

\* The user calls trigger(arg), exposed by the last render.
IntervalTrigger ==
    /\ executeAsyncFnDefined(isRunning)
    /\ envSteps < MaxEnv
    /\ envSteps' = envSteps + 1
    /\ Run("trigger")
    /\ UNCHANGED <<asyncFnGiven, enable, intervalSeconds, lastRunTime,
                   pendLastRunTime, timeoutIdRef, intervalTimers, scheduleCleanup,
                   notInterval>>

\* The interval timer h expires and calls executeAsyncFn(defaultArg). A timer
\* callback is a task of its own: the updates queued before it are rendered.
\* The callback leaves timeoutIdRef as it is.
IntervalTimerFire(h) ==
    /\ h \in intervalTimers
    /\ IntervalRendered
    /\ intervalTimers' = intervalTimers \ {h}
    /\ Run("timer")
    /\ UNCHANGED <<asyncFnGiven, enable, intervalSeconds, lastRunTime,
                   pendLastRunTime, timeoutIdRef, scheduleCleanup, envSteps,
                   notInterval>>

\* asyncFn call i settles: its finally callback queues lastRunTime = new
\* Date(), then execute continues.
IntervalSettle(i, ok) ==
    /\ i \in unsettled
    /\ executeSettles(i, ok)
    /\ pendLastRunTime' = "date"
    /\ intervalOp' = "settle"
    /\ UNCHANGED <<asyncFnGiven, enable, intervalSeconds, lastRunTime,
                   timeoutIdRef, intervalTimers, scheduleCleanup, envSteps,
                   notInterval>>

\* The user calls abort(), exposed while isRunning.
IntervalAbort ==
    /\ ExposedAbort(isRunning)
    /\ envSteps < MaxEnv
    /\ envSteps' = envSteps + 1
    /\ Abort
    /\ intervalOp' = "abort"
    /\ UNCHANGED <<isRunning, pendRunning, lastResult, lastError, pendResult,
                   pendError, currentPromiseRef, abortControllerRef, unsettled,
                   resetsWaiting, failed>>
    /\ UNCHANGED <<asyncFnGiven, enable, intervalSeconds, lastRunTime,
                   pendLastRunTime, timeoutIdRef, intervalTimers, scheduleCleanup,
                   notInterval>>

\* The user calls reset(): resetSemaphore() and setLastRunTime(null).
IntervalReset ==
    /\ envSteps < MaxEnv
    /\ resetsWaiting < MaxResets
    /\ envSteps' = envSteps + 1
    /\ resetSemaphore
    /\ pendLastRunTime' = IF NextLastRunTime = "null" THEN pendLastRunTime ELSE "null"
    /\ intervalOp' = "reset"
    /\ UNCHANGED <<asyncFnGiven, enable, intervalSeconds, lastRunTime,
                   timeoutIdRef, intervalTimers, scheduleCleanup, notInterval>>

\* resetSemaphore() continues after its timeout of 0 ms.
IntervalResetContinue ==
    /\ resetsWaiting > 0
    /\ resetContinues
    /\ intervalOp' = "resetContinue"
    /\ UNCHANGED <<asyncFnGiven, enable, intervalSeconds, lastRunTime,
                   pendLastRunTime, timeoutIdRef, intervalTimers, scheduleCleanup,
                   envSteps, notInterval>>

\* scheduleNextRun arms a timer: executeAsyncFn is defined, enable is true,
\* assertion E1 holds and intervalSeconds > 0.
ScheduleArms(executeAsyncFn, newEnable, newSeconds, ref) ==
    executeAsyncFn /\ newEnable /\ ref = 0 /\ newSeconds > 0

\* The assertions of the effect on the returned context.
ContextFailures(running, trigger, abortDefined, resultDefined, errorDefined) ==
    (IF running /\ trigger THEN {"useAsyncIntervalE2"} ELSE {})
      \cup (IF running /\ ~abortDefined THEN {"useAsyncIntervalE5"} ELSE {})
      \cup (IF ~running /\ abortDefined THEN {"useAsyncIntervalE6"} ELSE {})
      \cup (IF errorDefined /\ resultDefined THEN {"useAsyncIntervalE3"} ELSE {})

\* A render, with the props the parent passes: commits the queued state, then
\* runs the cleanup of the scheduleNextRun effect and the effect itself if its
\* dependencies changed, the assertions on the context, and the effect that
\* aborts the run when enable is false.
IntervalRender(newEnable, newSeconds) ==
    LET running == pendRunning
        lastChanged == pendLastRunTime = "date"
                         \/ (pendLastRunTime = "null" /\ lastRunTime # "null")
        propsChanged == newEnable # enable \/ newSeconds # intervalSeconds
        executeAsyncFn == executeAsyncFnDefined(running)
        scheduleChanged ==
            \/ propsChanged
            \/ lastChanged
            \/ executeAsyncFn # executeAsyncFnDefined(isRunning)
        cleanupRuns == scheduleChanged /\ scheduleCleanup
        refCleaned == IF cleanupRuns THEN 0 ELSE timeoutIdRef
        timersCleaned == IF cleanupRuns THEN intervalTimers \ {timeoutIdRef}
                         ELSE intervalTimers
        effectRuns == scheduleChanged /\ executeAsyncFn /\ newEnable
        arms == scheduleChanged
                  /\ ScheduleArms(executeAsyncFn, newEnable, newSeconds, refCleaned)
        fresh == CHOOSE h \in IntervalTimerIds : h \notin timersCleaned
        abortEffect == /\ ~newEnable /\ running
                       /\ (newEnable # enable \/ running # isRunning)
        failures ==
            (IF cleanupRuns /\ timeoutIdRef = 0 THEN {"scheduleNextRunE5"} ELSE {})
              \cup (IF effectRuns /\ refCleaned # 0 THEN {"scheduleNextRunE1"} ELSE {})
              \cup ContextFailures(running, executeAsyncFn, ExposedAbort(running),
                                   pendResult, pendError)
    IN /\ ~IntervalRendered \/ propsChanged
       /\ propsChanged => envSteps < MaxEnv
       /\ arms => IntervalTimerIds \ timersCleaned # {}
       /\ envSteps' = IF propsChanged THEN envSteps + 1 ELSE envSteps
       /\ enable' = newEnable
       /\ intervalSeconds' = newSeconds
       /\ isRunning' = running
       /\ lastResult' = pendResult
       /\ lastError' = pendError
       /\ lastRunTime' = NextLastRunTime
       /\ pendLastRunTime' = "keep"
       /\ timeoutIdRef' = IF arms THEN fresh ELSE refCleaned
       /\ intervalTimers' = IF arms THEN timersCleaned \cup {fresh} ELSE timersCleaned
       /\ scheduleCleanup' = IF scheduleChanged THEN arms ELSE scheduleCleanup
       /\ aborted' = IF abortEffect /\ abortControllerRef # 0
                     THEN aborted \cup {abortControllerRef} ELSE aborted
       /\ failed' = failed \cup failures
       /\ intervalOp' = IF arms THEN "renderArm" ELSE "render"
       /\ UNCHANGED <<asyncFnGiven, pendRunning, pendResult, pendError,
                      currentPromiseRef, abortControllerRef, unsettled,
                      resetsWaiting, notInterval>>

InitInterval ==
    /\ SaveStart
    /\ ArrayStart
    /\ BoundaryStart
    /\ WrapStart
    /\ CountStart
    /\ SemStart
    /\ asyncFnGiven \in BOOLEAN
    /\ enable \in BOOLEAN
    /\ intervalSeconds \in Seconds
    /\ IntervalMounted
NextInterval ==
    \/ IntervalTrigger
    \/ \E h \in IntervalTimerIds : IntervalTimerFire(h)
    \/ \E i \in ExecIds, ok \in BOOLEAN : IntervalSettle(i, ok)
    \/ IntervalAbort
    \/ IntervalReset
    \/ IntervalResetContinue
    \/ \E newEnable \in BOOLEAN, newSeconds \in Seconds :
          IntervalRender(newEnable, newSeconds)
SpecInterval == InitInterval /\ [][NextInterval]_vars

\* The liveness specification: renders happen, armed timers expire, every
\* asyncFn call settles and reset's timeout passes.
InitIntervalLive == InitInterval /\ asyncFnGiven
SpecIntervalLive ==
    /\ InitIntervalLive
    /\ [][NextInterval]_vars
    /\ WF_vars(IntervalRender(enable, intervalSeconds))
    /\ WF_vars(\E h \in IntervalTimerIds : IntervalTimerFire(h))
    /\ WF_vars(\E i \in ExecIds, ok \in BOOLEAN : IntervalSettle(i, ok))
    /\ WF_vars(IntervalResetContinue)

(* ------------------------------ claims --------------------------------- *)
\* The value of the hook's state as a caller observes it: `changed` and
\* `internalState` are what the last render returned; NextChanged and
\* NextInternal are what the queued updates make of them.

hookState == <<config, cells, refs, timing, ext, externalState, mounted>>

\* C1: while changed is true, a change of the external value leaves the
\* internal value and changed untouched, and until a flush or revert has
\* cleared changed the internal value changes only through setInternalValue
\* (revert being the operation that clears it).
C1_ExternalNeverClobbers ==
    [][ (mounted /\ NextChanged) =>
          /\ lastOp' \in {"render", "renderExternal", "external"} =>
                (NextInternal' = NextInternal /\ NextChanged')
          /\ NextInternal' # NextInternal =>
                lastOp' \in {"setValue", "setValueFn", "revert"} ]_vars

\* A render has received a changed external value while changed was true and
\* the internal value still differs from it.
C1_Witness ==
    /\ lastOp = "renderExternal"
    /\ changed
    /\ pendInternal = {}
    /\ ~deepCompare(internalState, externalState)

\* C2: when the external value changes to a value not deep-equal to the
\* internal value while changed is false, the internal value becomes the new
\* external value and changed stays false.
C2_CleanAdoptsExternal ==
    [][ (lastOp' = "renderExternal" /\ ~NextChanged
           /\ ~deepCompare(NextInternal, extStore)) =>
          (NextInternal' = extStore /\ ~NextChanged') ]_vars

\* A render has adopted an external value that differs from the one shown.
C2_Witness ==
    /\ lastOp = "renderExternal"
    /\ ~changed
    /\ pendInternal = {externalState}
    /\ ~deepCompare(internalState, externalState)

\* C3: flush() called while changed is true, with an external setter and a
\* defined internal value, calls the setter exactly once with the latest
\* internal value and changed becomes false; in every other state it writes
\* nothing and changes nothing.
C3_FlushWritesLatestOnce ==
    [][ lastOp' = "flush" =>
          IF changed /\ hasSetter /\ NextInternal # Undefined
          THEN /\ extCalls' = extCalls + 1
               /\ extStore' = NextInternal
               /\ ~NextChanged'
          ELSE UNCHANGED hookState ]_vars

\* C4: revert() called while changed is true sets the internal value to the
\* current external value and changed to false without an external write;
\* called while changed is false it changes nothing.
C4_RevertDiscards ==
    [][ lastOp' = "revert" =>
          IF changed
          THEN /\ NextInternal' = externalState
               /\ ~NextChanged'
               /\ UNCHANGED ext
          ELSE UNCHANGED hookState ]_vars

\* revert() has just discarded a local edit.
C4_Witness ==
    /\ lastOp = "revert"
    /\ changed
    /\ pendChanged = {FALSE}
    /\ pendInternal = {externalState}
    /\ ~deepCompare(internalState, externalState)
    /\ extCalls = 0

\* C5: with debounceMs set, a burst of k >= 1 local writes, each made
\* before the timer armed by the previous write has expired, results in
\* exactly one call of the external setter, with the value of the last write,
\* made when the timer armed by the last write expires: during the burst one
\* timer is armed, the one the last write armed, no write or render calls the
\* setter, and the expiry calls it once with the last value.
C5_BurstOneWrite ==
    [][ (mounted /\ debounceOn /\ hasSetter /\ burstWrites >= 1
           /\ lastOp # "timer") =>
          /\ timers = {debounceTimerRef}
          /\ lastOp' \in {"setValue", "setValueFn", "render", "renderExternal",
                          "external"} => extCalls' = extCalls
          /\ lastOp' = "timer" =>
                /\ extCalls' = extCalls + 1
                /\ extStore' = NextInternal
                /\ ~NextChanged' ]_vars

\* The timer of a burst of three writes has expired and written once.
C5_Witness ==
    /\ lastOp = "timer"
    /\ burstWrites = 3
    /\ extCalls = 1
    /\ extStore = internalState
    /\ timers = {}

\* C6: with autoFlushOnTeardown = true, teardown while changed is true calls
\* the external setter exactly once with the latest internal value before it
\* completes, no timer is left armed, and nothing is written afterwards.
C6_TeardownFlushesOnce ==
    [][ /\ (lastOp' = "teardown" /\ autoSaveOnUnmount /\ changed /\ hasSetter
              /\ NextInternal # Undefined) =>
             /\ extCalls' = extCalls + 1
             /\ extStore' = NextInternal
             /\ timers' = {}
        /\ ~mounted => extCalls' = extCalls ]_vars

\* C7: setInternalValue(v) with the resolved v deep-equal to the current
\* internal value (a distinct object included) is a no-op: a call that leaves
\* the internal value deep-equal to what it was has changed neither the
\* internal value, nor changed, nor the timer.
C7_EqualWriteIsNoOp ==
    [][ (lastOp' \in {"setValue", "setValueFn"}
           /\ deepCompare(NextInternal', NextInternal)) =>
          UNCHANGED hookState ]_vars

\* C8: two updater calls made in immediate succession, before any render,
\* from internal value v leave the internal value f(f(v)) and changed = true,
\* and neither call writes to the external store.
C8_UpdatersCompose ==
    [][ /\ rapid' >= 1 => extCalls' = extCalls
        /\ rapid' = 2 =>
             /\ deepCompare(NextInternal', Inc(Inc(internalState)))
             /\ NextChanged' ]_vars

\* C9: useAsyncSaveState clears changed only when the promise of the external
\* write has resolved (or on revert); when the promise of the write a flush
\* made rejects, changed is still true, so that a later flush() writes again.
C9_ClearedAfterResolve ==
    [][ /\ (mounted' /\ NextChanged /\ ~NextChanged') =>
             lastOp' \in {"resolve", "revert"}
        /\ (lastOp = "flush" /\ lastOp' = "reject") => NextChanged' ]_vars

\* C10: without an external setter the hook is read-only: it returns no
\* setInternalValue and changed is never set.
C10_ReadOnlyWithoutSetter ==
    (mounted /\ ~hasSetter) => (~SetValueDefined /\ ~NextChanged)

\* The hook is quiescent: mounted, no update is queued and the last render
\* has received the value the store holds.
Quiescent ==
    /\ mounted
    /\ pendInternal = {}
    /\ pendChanged = {}
    /\ StrictEq(extStore, externalState)

\* C11: in every quiescent state, changed = false implies that the internal
\* value is deep-equal to the external value.
C11_CleanTracksExternal ==
    (Quiescent /\ ~changed) => deepCompare(internalState, extStore)

\* C12: the external setter is called only where changed is true and the
\* call clears changed, so that a second flush request (flush(), debounce
\* expiry or teardown) with no local write in between writes nothing,
\* whether or not a render has run since the first.
C12_WriteOnlyWhenDirty ==
    [][ extCalls' # extCalls =>
          /\ extCalls' = extCalls + 1
          /\ NextChanged
          /\ ~NextChanged' ]_vars

\* C13: in both hooks at most one debounce timer is armed in every reachable
\* state, and it is the one debounceTimerRef holds: a local write that arms a
\* timer has cancelled the one armed before.
C13_OneTimer ==
    /\ Cardinality(timers) <= 1
    /\ timers \subseteq {debounceTimerRef}

\* The asynchronous hook has re-armed the timer on the second write of a
\* burst.
C13_Witness ==
    /\ variant = "async"
    /\ lastOp = "setValue"
    /\ burstWrites = 2
    /\ timers = {debounceTimerRef}

C15_DirtyUntilFlushOrRevert ==
    [][ (NextChanged /\ ~NextChanged') =>
          (lastOp' = "revert" \/ extCalls' = extCalls + 1) ]_vars

\* A local write has made the internal value equal to the external value
\* again and changed is still true.
C15_Witness ==
    /\ lastOp = "setValue"
    /\ changed
    /\ NextChanged
    /\ pendInternal # {}
    /\ deepCompare(NextInternal, extStore)
    /\ ~deepCompare(internalState, extStore)

\* C16: setInternalValue(v2) while the internal value is v1, for every v2
\* not deep-equal to v1: the internal value becomes v2, changed becomes true,
\* and if debounceMs is set the armed timer is cancelled and a new one armed.
C16_WriteSetsDirty ==
    [][ \A v2 \in Objects :
          (SetValue(Literal(v2)) /\ ~deepCompare(v2, NextInternal)) =>
             /\ NextInternal' = v2
             /\ NextChanged'
             /\ debounceOn =>
                   /\ timers' = {debounceTimerRef'}
                   /\ debounceTimerRef' \notin timers ]_vars

\* C17: with debounceMs set and an external setter, after a local write
\* that sets changed and arms timer h, unless a further local write re-arms
\* the timer or a revert or teardown occurs, the external setter is eventually
\* called with the latest internal value and changed is cleared.
C17_DebounceEventuallySaves ==
    \A h \in TimerIds :
       (mounted /\ NextChanged /\ timers = {h} /\ extCalls < MaxCalls)
          ~> \/ /\ lastOp \in {"timer", "flush"}
                /\ ~NextChanged
                /\ extStore = NextInternal
             \/ timers # {} /\ timers # {h}
             \/ lastOp = "revert"
             \/ ~mounted

\* The timer armed by a single local write has expired and saved the write.
C17_Witness ==
    /\ lastOp = "timer"
    /\ burstWrites = 1
    /\ extCalls = 1
    /\ pendChanged = {FALSE}
    /\ extStore = internalState
    /\ ~deepCompare(extStore, externalState)

\* C18: with debounceMs unset the hook never creates a timer, and it changes
\* the external value only through the external setter, called inside an
\* explicit flush() or at teardown.
C18_NoTimerWithoutDebounce ==
    [][ ~debounceOn =>
          /\ timers' = {}
          /\ debounceTimerRef' = 0
          /\ extCalls' # extCalls => lastOp' \in {"flush", "teardown"}
          /\ extStore' # extStore =>
                (lastOp' = "external" \/ extCalls' = extCalls + 1) ]_vars

\* Without debounceMs an explicit flush and then the teardown have each
\* written a local edit, and no timer was ever armed.
C18_Witness ==
    /\ ~debounceOn
    /\ lastOp = "teardown"
    /\ extCalls = 2
    /\ timers = {}
    /\ debounceTimerRef = 0
    /\ extStore = internalState

\* C19: useAsyncSaveState: a local write made while an external write is in
\* flight does not cancel that write and is not lost: while the write is
\* awaited and when it resolves the internal value stays the newer local value
\* and changed stays true, and the next flush writes the newer value.
C19_WriteDuringFlightKept ==
    [][ inflight # <<>> =>
          /\ lastOp' \in {"setValue", "setValueFn"} => inflight' = inflight
          /\ (NextChanged /\ lastOp' \in {"resolve", "render", "renderExternal"}) =>
                (NextInternal' = NextInternal /\ NextChanged')
          /\ (NextChanged /\ changed /\ hasSetter /\ lastOp' = "flush") =>
                /\ extCalls' = extCalls + 1
                /\ inflight' = Append(inflight, NextInternal) ]_vars

\* C20: useAsyncSaveState never has two of its own external writes in
\* flight at the same time.
C20_OneWriteInFlight == Len(inflight) <= 1

\* C21: useAsyncSaveState: when the promise the external setter returned
\* rejects, the rejection reaches the caller of flush() (or of the write that
\* triggered the save), and the failure does not change the internal value.
C21_RejectionPropagates ==
    [][ lastOp' = "reject" =>
          /\ RejectionReaches = "caller"
          /\ NextInternal' = NextInternal ]_vars

\* C22: useItem(X).setItem affects only the list element with id X:
\* setItem(null) removes it, setItem(v) replaces it at the same index, or
\* appends v when no element has id X; every other element keeps its value
\* and the other elements keep their relative order.
C22_SetItemFrame ==
    [][ \A X \in ItemIds, newItem \in ItemActions :
          SetItem(X, newItem) =>
            LET v == resolvedNewItem(newItem, FindItem(renderedList, X))
                Other(e) == e.id # X
                Has == \E i \in 1..Len(list) : list[i].id = X
            IN IF v = NullItem
               THEN list' = SelectSeq(list, Other)
               ELSE IF Has
               THEN /\ Len(list') = Len(list)
                    /\ \A i \in 1..Len(list) : list[i].id # X => list'[i] = list[i]
                    /\ \E i \in 1..Len(list) : list[i].id = X /\ list'[i] = v
               ELSE list' = Append(list, v) ]_vars

\* setItem has replaced the element with id 1 in the middle of a list of
\* three items of which the others have id 2.
C22_Witness ==
    /\ arrayOp = "replace"
    /\ Len(list) = 3
    /\ list[1].id = 2
    /\ list[2] = Item(1, 1)
    /\ list[3].id = 2
    /\ FindItem(renderedList, 1) = Item(1, 0)

\* C23: once an error thrown by a child is caught and the filter accepts
\* it (without a filter: any Error), the fallback is rendered with that error
\* in every render until reset() is called or the children prop changes;
\* after reset() the error state is null and the children are rendered again.
C23_FallbackUntilReset ==
    [][ /\ (boundaryOp' = "caught" /\ Filter(error')) => shown' = "fallback"
        /\ (shown = "fallback" /\ pendingReset # "reset" /\ children' = children) =>
              (shown' = "fallback" /\ error' = error)
        /\ (pendingReset = "reset" /\ pendingReset' = "none") =>
              \/ error' = "null" /\ shown' = "children"
              \/ boundaryOp' = "caught" ]_vars

\* C24: useDerivedState / useConvert write through. A call of the derived
\* setter resolves its action against the derived value that was current when
\* it was called, calls the original setter exactly once, with
\* toOriginal(newDerived, original), and resolves with newDerived only once the
\* original setter's promise has resolved; when that promise rejects, the
\* derived setter rejects without a value.
C24_WriteThrough ==
    wrapper \in {"useDerivedState", "useConvert"} =>
      LET newDerived ==
            IF wCall.valueOrUpdate = FlipUpdate
            THEN Val("derived", 1 - wCall.prev.a, 0)
            ELSE wCall.valueOrUpdate
          written == Val("original", newDerived.a, wCall.prev.b)
      IN /\ Len(wCall.sent) <= 1
         /\ wCall.phase \in {"awaiting", "resolved", "rejected"} =>
               wCall.sent = <<written>>
         /\ wCall.phase = "resolved" =>
               wCall.originalPromise = "resolved" /\ wCall.result = newDerived
         /\ wCall.originalPromise = "rejected" =>
               wCall.phase \in {"awaiting", "rejected"} /\ wCall.result = WUndefined
         /\ wCall.phase = "rejected" => wCall.originalPromise = "rejected"
C24_Witness ==
    /\ wrapper = "useDerivedState"
    /\ wCall.phase = "resolved"
    /\ wCall.valueOrUpdate = FlipUpdate
    /\ wCall.prev = Val("original", 0, 1)
    /\ wCall.sent = <<Val("original", 1, 1)>>
    /\ wInput # wCall.prev

\* C25: read-only propagation through useDerivedState, useConvert, useJson,
\* useLogState and useDelayedCallback. With an undefined input setter the
\* returned setter is undefined, so the wrapper's setter is only ever called
\* while the input setter is defined; with a defined input setter and a
\* defined value the returned setter is defined.
C25_ReadOnlyPropagates ==
    [][ /\ ~wSetterGiven => ~ReturnedSetterDefined(wrapper, wInput, wSetterGiven)
        /\ (wSetterGiven /\ wInput # WUndefined) =>
              ReturnedSetterDefined(wrapper, wInput, wSetterGiven)
        /\ (\E valueOrUpdate \in ActionsOf(wrapper) : WrapCall(valueOrUpdate)) =>
              wSetterGiven ]_vars
C25_Witness ==
    /\ wrapper = "useDelayedCallback"
    /\ ~wSetterGiven
    /\ wInput # WUndefined
    /\ wCall.phase = "flushed"

\* C26: useCountDebounce. Within a burst of trigger() calls the count is the
\* number of calls made and onThresholdReached has been called exactly once
\* from the countThreshold-th call on and not before, however the calls
\* interleave with re-renders; once resetDelay passes without a call the count
\* is reset to 0 and the next burst counts from 1.
C26_ThresholdOncePerBurst ==
    /\ pendCount = burstCalls
    /\ reached = IF burstCalls >= countThreshold THEN 1 ELSE 0

\* C27: in the asynchronous variant setValue(v) with v deep-equal to the
\* current internal value but a distinct object is a no-op: no state update is
\* queued, changed is not set and no debounce timer is armed.
C27_AsyncDeepEqualWriteIsNoOp ==
    [][ \A v \in Objects :
          ( /\ variant = "async"
            /\ pendInternal = {}
            /\ deepCompare(v, internalState)
            /\ ~StrictEq(v, internalState)
            /\ SetValue(Literal(v)) ) =>
          UNCHANGED <<pendInternal, pendChanged, timing>> ]_vars

\* C28: useSaveState with debounceMs set. flush() and revert() leave the
\* pending debounce timer armed; when no local write follows them, the expiry
\* of that timer performs no external write and leaves the internal value and
\* changed as they are.
C28_StaleTimerIsNoOp ==
    [][ /\ (variant = "sync" /\ debounceOn /\ lastOp' \in {"flush", "revert"}) =>
              UNCHANGED timing
        /\ \A h \in TimerIds :
              (variant = "sync" /\ burstWrites = 0 /\ TimerFire(h)) =>
                /\ UNCHANGED <<ext, cells>>
                /\ internalStateRef' = internalStateRef ]_vars

\* C29: useAsyncSemaphore. When callers use only the execute that the
\* returned object exposes, at most one asyncFn started through it is
\* unsettled at any time.
C29_OneUnsettled == Cardinality(unsettled) <= 1

\* C30: useAsyncSemaphore. No assertion of execute fails: both refs are null
\* when an execution starts (E21, E22) and non-null when its finally block
\* runs (E41, E42), whatever abort() and reset() calls come in between.
C30_AssertionsHold == failed = {}

\* C34: useItem(X).setItem(f) with an updater f applies f to the element with
\* id X as it is in the list when the update is applied, so two updater calls
\* issued before a re-render leave f(f(item)).
C34_UpdaterSeesCurrentItem ==
    [][ \A itemId \in ItemIds :
          (FindItem(list, itemId) # NullItem /\ SetItem(itemId, ItemUpdater)) =>
             FindItem(list', itemId) = Toggle(FindItem(list, itemId)) ]_vars

\* C35: starting from a list with pairwise distinct ids, after any sequence of
\* useItem(X).setItem calls the ids of the list are pairwise distinct, and
\* useItem(X) observes null or an element whose id is X.
C35_IdsDistinct ==
    /\ \A i, j \in 1..Len(list) : list[i].id = list[j].id => i = j
    /\ \A itemId \in ItemIds :
          FindItem(renderedList, itemId) \in {NullItem} \cup {Item(itemId, x) : x \in ItemVals}

\* C36: useDelayedCallback. Calls of the delayed setter made before the timer
\* expires are coalesced: the wrapped setValue receives the last value only,
\* once, and it is invoked only when the timer expires or the component
\* unmounts, never earlier.
C36_DeliveredAtExpiryOrUnmount ==
    [][ wrapper = "useDelayedCallback" =>
          /\ Len(wCall'.sent) <= 1
          /\ (wCall'.sent # <<>> /\ wCall'.sent # wCall.sent) =>
                /\ wCall.phase = "timer"
                /\ wCall'.sent = <<wCall.newValue>>
                /\ WrapTimerFire \/ WrapUnmount ]_vars

\* C31: useAsyncInterval / useAsyncSemaphore. In every rendered result trigger
\* (execute) is undefined while isRunning is true, abort is defined exactly
\* when isRunning is true, and lastResult and lastError are never both
\* defined: the assertions E2, E5, E6, E3 and E4 on the context never fail.
C31_RenderedResultConsistent ==
    /\ failed \cap {"useAsyncIntervalE2", "useAsyncIntervalE5", "useAsyncIntervalE6",
                    "useAsyncIntervalE3", "useAsyncIntervalE4"} = {}
    /\ isRunning => (~ExposedExecute(isRunning) /\ ~executeAsyncFnDefined(isRunning))
    /\ ExposedAbort(isRunning) <=> isRunning
    /\ ~(lastResult /\ lastError)
C31_Witness ==
    /\ intervalOp = "render"
    /\ isRunning
    /\ lastError
    /\ unsettled # {}

\* C32: useAsyncInterval. At most one interval timer is pending at any time;
\* whenever scheduleNextRun arms a timer, timeoutIdRef was null (assertion E1
\* holds) and no run is in progress, and no timer is pending while enable is
\* false or intervalSeconds <= 0.
C32_OneTimerArmedWhenIdle ==
    /\ Cardinality(intervalTimers) <= 1
    /\ "scheduleNextRunE1" \notin failed
    /\ intervalOp = "renderArm" => unsettled = {}
    /\ intervalTimers # {} => (enable /\ intervalSeconds > 0)

\* C33: useAsyncInterval. While enable is true and intervalSeconds > 0, every
\* settled run is eventually followed by another run; when enable becomes
\* false while a run is in progress, that run is aborted, no timer stays
\* armed and the timer starts no further run.
C33_RunsRecur ==
    /\ (intervalOp = "settle") ~>
          (intervalOp \in {"timer", "trigger"} \/ ~enable \/ intervalSeconds = 0)
    /\ [][ /\ (enable /\ ~enable' /\ unsettled' # {}) =>
                (unsettled' \subseteq aborted' /\ intervalTimers' = {})
           /\ intervalOp' = "timer" => enable ]_vars

TypeOK ==
    /\ internalState \in Values
    /\ internalStateRef \in Values
    /\ extStore \in Values
    /\ externalState \in Values
    /\ pendInternal \subseteq Values
    /\ pendChanged \subseteq BOOLEAN
    /\ timers \subseteq TimerIds
    /\ debounceTimerRef \in TimerIds \cup {0}
    /\ extCalls \in 0..MaxCalls
    /\ burstWrites \in 0..MaxBurst
    /\ rapid \in 0..2
====
